---- MODULE Spec2Model ----
(***************************************************************************)
(* Model of custom_components/roborock/config_flow.py: the config flow     *)
(* (RoborockFlowHandler) and the options flow (RoborockOptionsFlowHandler) *)
(* together with the parts of the host's flow engine and of the account    *)
(* client that the step handlers call.                                     *)
(***************************************************************************)
EXTENDS Integers, FiniteSets, Sequences, TLC

VARIABLES
    flows,          \* per flow instance: the handler's fields, context and last result
    entries,        \* hass.config_entries: the config entries that exist
    submitted,      \* history: the username last submitted to each flow
    remote,         \* history: the remote calls that succeeded for each flow
    last,           \* the most recent handler call and what the account service answered
    config_entry,   \* the config entry the options flow edits (its persisted options)
    options_flow    \* the options flow handler: self.options, its last result, and
                    \* history: the last camera submission

vars == <<flows, entries, submitted, remote, last, config_entry, options_flow>>

config_vars == <<flows, entries, submitted, remote>>
options_vars == <<config_entry, options_flow>>

(***************************************************************************)
(* Bounds                                                                  *)
(***************************************************************************)
NumFlows == 2

Flows == 1..NumFlows

Usernames == {"alice", "bob"}

(***************************************************************************)
(* Python values                                                           *)
(***************************************************************************)
None == "None"

\* A dict is a set of <<key, value>> pairs with at most one pair per key.
EmptyDict == {}

DictKeys(d) == {p[1] : p \in d}

DictGet(d, k) == (CHOOSE p \in d : p[1] = k)[2]

\* d[k] = v
DictSet(d, k, v) == {p \in d : p[1] # k} \cup {<<k, v>>}

\* Python truthiness of a dict (None is falsy as well, and is modelled by {}).
Truthy(d) == d # EmptyDict

CONF_ENTRY_USERNAME == "username"
CONF_ENTRY_CODE == "code"

(***************************************************************************)
(* The account client (api.RoborockClient), as far as the flow uses it     *)
(***************************************************************************)
\* self._client = None
NoClient == [owner |-> 0, username |-> None, base_url |-> None]

\* The account service's base URL for an account (resolved by request_code).
BaseUrlOf(u) == IF u = "alice" THEN "https://eu" ELSE "https://us"

\* RoborockClient(self._username) after a successful request_code(), created
\* by flow f.
RoborockClient(f, u) == [owner |-> f, username |-> u, base_url |-> BaseUrlOf(u)]

\* What the account service answers to request_code / code_login.
RequestOutcomes == {"ok", "raise"}
LoginOutcomes == {"ok", "raise", "empty"}

\* login_data.data of the UserData a successful client.code_login returns.
UserData(client) == [account |-> client.username, session_of |-> client.owner]

(***************************************************************************)
(* Flow results (what a step handler returns to the flow engine)           *)
(***************************************************************************)
NotStarted == [type |-> "none", step_id |-> None, reason |-> None]

\* self.async_show_form(step_id=..., errors=self._errors); the errors shown are
\* the handler's _errors field.
async_show_form(step) == [type |-> "form", step_id |-> step, reason |-> None]

\* self.async_create_entry(...)
CreateEntryResult == [type |-> "create_entry", step_id |-> None, reason |-> None]

\* AbortFlow(reason)
AbortResult(reason) == [type |-> "abort", step_id |-> None, reason |-> reason]

\* An exception that escapes the handler ends the flow.
ExceptionResult(name) == [type |-> "exception", step_id |-> None, reason |-> name]

\* RoborockFlowHandler.__init__
NewFlow ==
    [ errors    |-> EmptyDict,
      client    |-> NoClient,
      username  |-> None,
      base_url  |-> None,
      unique_id |-> None,       \* self.context["unique_id"]
      entry_id  |-> 0,          \* self.context["entry_id"] (reauth only)
      result    |-> NotStarted ]

\* The flow engine calls a step only on a flow that is in progress.
Active(f) == flows[f].result.type = "form"

Finished(f) == flows[f].result.type \in {"create_entry", "abort", "exception"}

NoCall == [flow |-> 0, step |-> "none", input |-> None, outcome |-> None, entry_id |-> 0]

Call(f, step, input, outcome, eid) ==
    [flow |-> f, step |-> step, input |-> input, outcome |-> outcome, entry_id |-> eid]

NoRemote == [requested |-> FALSE, logged_in |-> FALSE]

(***************************************************************************)
(* Config entries                                                          *)
(***************************************************************************)
\* The entry the flow engine adds for a create_entry result of flow f.
ConfigEntry(f, uid, title, data) ==
    [entry_id |-> f, unique_id |-> uid, title |-> title, data |-> data]

\* self._abort_if_unique_id_configured(): an entry with this unique id exists.
UniqueIdConfigured(uid) == \E e \in entries : e.unique_id = uid

\* self.async_set_unique_id(uid) raises AbortFlow("already_in_progress") when
\* another flow in progress has this unique id.
UniqueIdInProgress(f, uid) ==
    \E g \in Flows \ {f} : Active(g) /\ flows[g].unique_id = uid

(***************************************************************************)
(* RoborockFlowHandler                                                     *)
(***************************************************************************)
request_code_unchecked(f, self, outcome) ==
    [value |-> RoborockClient(f, self.username), errors |-> self.errors]

\* _request_code: the client on success; on an exception _errors["base"] is
\* set to "auth" and None is returned.
request_code(f, self, outcome) ==
    IF outcome = "ok"
    THEN [value |-> RoborockClient(f, self.username), errors |-> self.errors]
    ELSE [value |-> NoClient, errors |-> DictSet(self.errors, "base", "auth")]

login_unchecked(self, outcome) ==
    [value |-> {<<"data", UserData(self.client)>>}, errors |-> self.errors]

\* _login: self._client.code_login(code). With self._client still None the
\* attribute lookup raises inside the try block, like a failing code_login.
\* value is the login data, empty (falsy) when there is none.
login(self, outcome) ==
    IF self.client # NoClient /\ outcome = "ok"
    THEN [value |-> {<<"data", UserData(self.client)>>}, errors |-> self.errors]
    ELSE IF self.client # NoClient /\ outcome = "empty"
    THEN [value |-> EmptyDict, errors |-> self.errors]
    ELSE [value |-> EmptyDict, errors |-> DictSet(self.errors, "base", "auth")]

\* The handler's fields are attributes of the instance (set in __init__):
\* a step of flow f writes the fields of flow f only.
SetFlowShared(f, self) ==
    [g \in Flows |->
        IF g = f THEN self
        ELSE [flows[g] EXCEPT !.username = self.username,
                              !.client = self.client,
                              !.base_url = self.base_url]]

SetFlow(f, self) == [flows EXCEPT ![f] = self]

store_client_only(self, client) ==
    [self EXCEPT !.result = async_show_form("code")]

\* if client: self._client = client; self._base_url = client.base_url;
\* return await self._show_code_form(user_input)
store_client(self, client) ==
    [self EXCEPT !.client = client,
                 !.base_url = client.base_url,
                 !.result = async_show_form("code")]

\* async_step_user(user_input), with the flow engine's handling of the result.
\* A flow started by the user begins with async_step_user(None).
async_step_user(f, user_input, outcome) ==
    /\ ~Finished(f)
    /\ flows[f].result = NotStarted => ~Truthy(user_input)
    /\ LET self0 == [flows[f] EXCEPT !.errors = EmptyDict] IN
       IF Truthy(user_input)
       THEN LET u == DictGet(user_input, CONF_ENTRY_USERNAME)
                self1 == [self0 EXCEPT !.username = u]
            IN  /\ submitted' = [submitted EXCEPT ![f] = u]
                /\ IF UniqueIdInProgress(f, u)
                   THEN /\ flows' = SetFlow(f,
                               [self1 EXCEPT !.result = AbortResult("already_in_progress")])
                        /\ last' = Call(f, "user", u, None, 0)
                        /\ UNCHANGED remote
                   ELSE IF UniqueIdConfigured(u)
                   THEN /\ flows' = SetFlow(f,
                               [self1 EXCEPT !.unique_id = u,
                                             !.result = AbortResult("already_configured")])
                        /\ last' = Call(f, "user", u, None, 0)
                        /\ UNCHANGED remote
                   ELSE LET self2 == [self1 EXCEPT !.unique_id = u]
                            r == request_code(f, self2, outcome)
                            self3 == [self2 EXCEPT !.errors = r.errors]
                        IN  /\ last' = Call(f, "user", u, outcome, 0)
                            /\ IF r.value # NoClient
                               THEN /\ flows' = SetFlow(f, store_client(self3, r.value))
                                    /\ remote' = [remote EXCEPT ![f].requested = TRUE]
                               ELSE /\ flows' = SetFlow(f,
                                           [self3 EXCEPT !.errors = DictSet(r.errors, "base", "auth"),
                                                         !.result = async_show_form("user")])
                                    /\ UNCHANGED remote
       ELSE /\ flows' = SetFlow(f, [self0 EXCEPT !.result = async_show_form("user")])
            /\ last' = Call(f, "user", None, None, 0)
            /\ UNCHANGED <<submitted, remote>>
    /\ UNCHANGED <<entries, options_vars>>

login_failed_keep(self, errors) ==
    [self EXCEPT !.errors = IF errors = EmptyDict
                            THEN DictSet(errors, "base", "no_device")
                            ELSE errors,
                 !.result = async_show_form("code")]

\* else: self._errors["base"] = "no_device"; return await self._show_code_form(user_input)
login_failed(self, errors) ==
    [self EXCEPT !.errors = DictSet(errors, "base", "no_device"),
                 !.result = async_show_form("code")]

\* async_step_code(user_input), with the flow engine's handling of the result:
\* a create_entry result adds the entry (replacing one with the same unique
\* id) and ends the flow.
async_step_code(f, user_input, outcome) ==
    /\ Active(f)
    /\ LET self0 == [flows[f] EXCEPT !.errors = EmptyDict] IN
       IF Truthy(user_input)
       THEN LET r == login(self0, outcome)
                tried == IF self0.client # NoClient THEN outcome ELSE None
            IN  IF Truthy(r.value)
                THEN /\ flows' = SetFlow(f,
                            [self0 EXCEPT !.errors = r.errors, !.result = CreateEntryResult])
                     /\ entries' = {e \in entries : e.unique_id # self0.unique_id} \cup
                            { ConfigEntry(f, self0.unique_id, self0.username,
                                  \* CONF_ENTRY_USERNAME, CONF_USER_DATA, CONF_BASE_URL
                                  [username  |-> self0.username,
                                   user_data |-> DictGet(r.value, "data"),
                                   base_url  |-> self0.base_url]) }
                     /\ remote' = [remote EXCEPT ![f].logged_in = TRUE]
                     /\ last' = Call(f, "code", "code", tried, f)
                ELSE /\ flows' = SetFlow(f, login_failed(self0, r.errors))
                     /\ last' = Call(f, "code", "code", tried, 0)
                     /\ UNCHANGED <<entries, remote>>
       ELSE /\ flows' = SetFlow(f, [self0 EXCEPT !.result = async_show_form("code")])
            /\ last' = Call(f, "code", None, None, 0)
            /\ UNCHANGED <<entries, remote>>
    /\ UNCHANGED <<submitted, options_vars>>

async_remove_nothing(entry_id) == entries

\* await self.hass.config_entries.async_remove(self.context["entry_id"])
async_remove(entry_id) == {x \in entries : x.entry_id # entry_id}

\* async_step_reauth(user_input): the first step of a flow started for the
\* existing entry e (context["entry_id"]). The entry is removed, then the user
\* form is built from user_input, which raises when user_input is None.
async_step_reauth(f, e, user_input) ==
    /\ flows[f].result = NotStarted
    /\ e \in entries
    /\ entries' = async_remove(e.entry_id)
    /\ flows' = SetFlow(f,
           [NewFlow EXCEPT !.entry_id = e.entry_id,
                           !.result = IF Truthy(user_input)
                                      THEN async_show_form("user")
                                      ELSE ExceptionResult("TypeError")])
    /\ last' = Call(f, "reauth", e.data.username, None, e.entry_id)
    /\ UNCHANGED <<submitted, remote, options_vars>>

(***************************************************************************)
(* Option keys and values                                                  *)
(***************************************************************************)
\* A string is a sequence of symbols; "." is the path separator symbol.
CONF_MAP_TRANSFORM == <<"map_transformation">>
CONF_SCALE == <<"scale">>
CONF_ROTATE == <<"rotate">>
CONF_TRIM == <<"trim">>
CONF_LEFT == <<"left">>
CONF_RIGHT == <<"right">>
CONF_TOP == <<"top">>
CONF_BOTTOM == <<"bottom">>
CONF_PLATFORM == "platform"
CAMERA == "camera"
VACUUM == "vacuum"

\* f"{a}.{b}"
Dotted(a, b) == a \o <<".">> \o b

KEY_SCALE == Dotted(CONF_MAP_TRANSFORM, CONF_SCALE)
KEY_ROTATE == Dotted(CONF_MAP_TRANSFORM, CONF_ROTATE)
KEY_LEFT == Dotted(CONF_MAP_TRANSFORM, Dotted(CONF_TRIM, CONF_LEFT))
KEY_RIGHT == Dotted(CONF_MAP_TRANSFORM, Dotted(CONF_TRIM, CONF_RIGHT))
KEY_TOP == Dotted(CONF_MAP_TRANSFORM, Dotted(CONF_TRIM, CONF_TOP))
KEY_BOTTOM == Dotted(CONF_MAP_TRANSFORM, Dotted(CONF_TRIM, CONF_BOTTOM))

CameraKeys == {KEY_SCALE, KEY_ROTATE, KEY_LEFT, KEY_RIGHT, KEY_TOP, KEY_BOTTOM}

\* A number or numeric string with its Python type.
PyFloat(n) == [t |-> "float", n |-> n]
PyInt(n) == [t |-> "int", n |-> n]
PyStr(n) == [t |-> "str", n |-> n]

\* CAMERA_OPTIONS: the default of each option.
CAMERA_OPTIONS(key) ==
    IF key = KEY_SCALE THEN PyFloat(1)
    ELSE IF key = KEY_ROTATE THEN PyInt(0)
    ELSE PyFloat(0)

\* vol.All(vol.Coerce(float), vol.Range(min=0))
POSITIVE_FLOAT_SCHEMA(v) == PyFloat(v.n)

\* vol.All(vol.Coerce(int), vol.Coerce(str), vol.In(["0", "90", "180", "270"]))
ROTATION_SCHEMA(v) == PyStr(v.n)

\* vol.All(vol.Coerce(float), vol.Range(min=0, max=100))
PERCENT_SCHEMA(v) == PyFloat(v.n)

\* CAMERA_SCHEMA.get(key)(value), for a value in the validator's range.
CAMERA_SCHEMA(key, v) ==
    IF key = KEY_SCALE THEN POSITIVE_FLOAT_SCHEMA(v)
    ELSE IF key = KEY_ROTATE THEN ROTATION_SCHEMA(v)
    ELSE PERCENT_SCHEMA(v)

\* The values a validated camera form can carry for a key.
CameraValues(key) ==
    IF key = KEY_SCALE THEN {PyFloat(1), PyFloat(2)}
    ELSE IF key = KEY_ROTATE THEN {PyStr(0), PyStr(90)}
    ELSE IF key = KEY_LEFT THEN {PyFloat(0), PyFloat(10)}
    ELSE {PyFloat(5)}

(***************************************************************************)
(* Nested dicts (utils.set_nested_dict / get_nested_dict)                  *)
(***************************************************************************)
NoValue == [t |-> "none", n |-> 0]

\* A node of a nested mapping: a leaf value or a dict from strings to nodes.
Leaf(v) == [kind |-> "val", val |-> v, items |-> <<>>]
DictNode(items) == [kind |-> "dict", val |-> NoValue, items |-> items]
EmptyNode == DictNode(<<>>)

\* key_path.split(".")
RECURSIVE Split(_)
Split(s) ==
    IF \E i \in 1..Len(s) : s[i] = "."
    THEN LET i == CHOOSE j \in 1..Len(s) :
                      s[j] = "." /\ \A k \in 1..(j - 1) : s[k] # "."
         IN  <<SubSeq(s, 1, i - 1)>> \o Split(SubSeq(s, i + 1, Len(s)))
    ELSE <<s>>

\* node[k] = child
NodeSet(node, k, child) ==
    DictNode([x \in (DOMAIN node.items) \cup {k} |->
                 IF x = k THEN child ELSE node.items[x]])

\* Walks keys[:-1] with setdefault(key, {}), then assigns the last key.
RECURSIVE SetPath(_, _, _)
SetPath(node, keys, value) ==
    IF Len(keys) = 1
    THEN NodeSet(node, keys[1], Leaf(value))
    ELSE LET child == IF keys[1] \in DOMAIN node.items
                      THEN node.items[keys[1]]
                      ELSE EmptyNode
         IN  NodeSet(node, keys[1], SetPath(child, Tail(keys), value))

set_nested_dict(data, key_path, value) == SetPath(data, Split(key_path), value)

RECURSIVE GetPath(_, _, _)
GetPath(node, keys, default) ==
    IF node.kind # "dict" \/ keys[1] \notin DOMAIN node.items
    THEN default
    ELSE IF Len(keys) = 1
    THEN (IF node.items[keys[1]].kind = "val" THEN node.items[keys[1]].val ELSE default)
    ELSE GetPath(node.items[keys[1]], Tail(keys), default)

get_nested_dict(data, key_path, default) == GetPath(data, Split(key_path), default)

(***************************************************************************)
(* RoborockOptionsFlowHandler                                              *)
(***************************************************************************)
NoOptionsResult == [type |-> "none", step_id |-> None, data |-> EmptyNode, defaults |-> {}]

OptionsForm(step, defaults) ==
    [type |-> "form", step_id |-> step, data |-> EmptyNode, defaults |-> defaults]

\* The defaults of the camera form: for every key of CAMERA_OPTIONS the stored
\* option, or the key's default, passed through the key's validator.
CameraDefaults(options) ==
    { <<key, CAMERA_SCHEMA(key, get_nested_dict(options, key, CAMERA_OPTIONS(key)))>> :
          key \in CameraKeys }

NoHandler ==
    [exists |-> FALSE, options |-> EmptyNode, result |-> NoOptionsResult,
     input |-> EmptyDict, had_other_keys |-> FALSE]

OptionsActive == options_flow.exists /\ options_flow.result.type # "create_entry"

\* async_get_options_flow(config_entry): RoborockOptionsFlowHandler.__init__
async_get_options_flow ==
    /\ ~OptionsActive
    /\ options_flow' = [NoHandler EXCEPT !.exists = TRUE, !.options = config_entry.options]
    /\ UNCHANGED <<config_entry, config_vars, last>>

\* _update_options: async_create_entry(title="", data=self.options); the flow
\* engine stores the result's data as the config entry's options.
update_options(self) ==
    /\ options_flow' = [self EXCEPT !.result =
           [type |-> "create_entry", step_id |-> None, data |-> self.options, defaults |-> {}]]
    /\ config_entry' = [config_entry EXCEPT !.options = self.options]

RECURSIVE BuildOptions(_, _)
\* for key, value in user_input.items(): set_nested_dict(data, key, value)
BuildOptions(data, user_input) ==
    IF user_input = EmptyDict
    THEN data
    ELSE LET p == CHOOSE q \in user_input : TRUE
         IN  BuildOptions(set_nested_dict(data, p[1], p[2]), user_input \ {p})

\* The leaf paths of a nested mapping.
RECURSIVE Paths(_)
Paths(node) ==
    IF node.kind = "val"
    THEN {<<>>}
    ELSE UNION { { <<k>> \o q : q \in Paths(node.items[k]) } : k \in DOMAIN node.items }

camera_options_merged(options, user_input) == BuildOptions(options, user_input)

\* data = {}; set_nested_dict(data, key, value) for every submitted item;
\* self.options = data
camera_options(options, user_input) == BuildOptions(EmptyNode, user_input)

\* async_step_camera(user_input)
async_step_camera(user_input) ==
    /\ OptionsActive
    /\ IF Truthy(user_input)
       THEN update_options(
                [options_flow EXCEPT
                    !.options = camera_options(options_flow.options, user_input),
                    !.input = user_input,
                    !.had_other_keys = ~(Paths(options_flow.options) \subseteq
                                            {Split(k) : k \in DictKeys(user_input)})])
       ELSE /\ options_flow' = [options_flow EXCEPT
                   !.result = OptionsForm("camera", CameraDefaults(options_flow.options))]
            /\ UNCHANGED config_entry
    /\ UNCHANGED <<config_vars, last>>

\* async_step_vacuum
async_step_vacuum ==
    /\ update_options([options_flow EXCEPT !.input = EmptyDict, !.had_other_keys = FALSE])

\* RoborockOptionsFlowHandler.async_step_user(user_input); async_step_init
\* calls it without input.
options_async_step_user(user_input) ==
    /\ OptionsActive
    /\ IF Truthy(user_input) /\ DictGet(user_input, CONF_PLATFORM) = CAMERA
       THEN async_step_camera(EmptyDict)
       ELSE IF Truthy(user_input) /\ DictGet(user_input, CONF_PLATFORM) = VACUUM
       THEN async_step_vacuum /\ UNCHANGED <<config_vars, last>>
       ELSE /\ options_flow' = [options_flow EXCEPT !.result = OptionsForm("user", {})]
            /\ UNCHANGED <<config_entry, config_vars, last>>

PlatformInputs == {EmptyDict, {<<CONF_PLATFORM, CAMERA>>}, {<<CONF_PLATFORM, VACUUM>>}}

\* The dicts a camera submission can be: values for some of the camera keys.
RECURSIVE DictsOver(_)
DictsOver(keys) ==
    IF keys = {}
    THEN {EmptyDict}
    ELSE LET k == CHOOSE x \in keys : TRUE
             rest == DictsOver(keys \ {k})
         IN  rest \cup { d \cup {<<k, v>>} : d \in rest, v \in CameraValues(k) }

CameraInputs == DictsOver(CameraKeys)

UserInputs == {EmptyDict} \cup {{<<CONF_ENTRY_USERNAME, u>>} : u \in Usernames}

CodeInputs == {EmptyDict, {<<CONF_ENTRY_CODE, "code">>}}

\* The data a reauth flow is started with: nothing, or the entry's data.
ReauthInputs(e) == {EmptyDict, {<<CONF_ENTRY_USERNAME, e.data.username>>}}

Init ==
    /\ flows = [f \in Flows |-> NewFlow]
    /\ entries = {}
    /\ submitted = [f \in Flows |-> None]
    /\ remote = [f \in Flows |-> NoRemote]
    /\ last = NoCall
    /\ config_entry = [options |-> EmptyNode]
    /\ options_flow = NoHandler

Next ==
    \/ \E f \in Flows, i \in UserInputs, o \in RequestOutcomes : async_step_user(f, i, o)
    \/ \E f \in Flows, i \in CodeInputs, o \in LoginOutcomes : async_step_code(f, i, o)
    \/ \E f \in Flows, e \in entries : \E i \in ReauthInputs(e) : async_step_reauth(f, e, i)

Spec == Init /\ [][Next]_vars

NextOptions ==
    \/ async_get_options_flow
    \/ \E i \in PlatformInputs : options_async_step_user(i)
    \/ \E i \in CameraInputs : async_step_camera(i)

SpecOptions == Init /\ [][NextOptions]_vars

(***************************************************************************)
(* Properties                                                              *)
(***************************************************************************)
SessionFields(f) == <<flows[f].username, flows[f].client, flows[f].base_url>>

BaseError(f, code) == flows[f].errors = {<<"base", code>>}

\* C1: a config entry appears only through a code-step submission whose
\* code_login succeeded, made on a flow whose request_code had succeeded in
\* an earlier user-step submission.
C1_EntryOnlyAfterBothRemoteCalls ==
    [][\A e \in entries' \ entries :
           /\ last'.step = "code"
           /\ last'.input # None
           /\ last'.outcome = "ok"
           /\ last'.flow = e.entry_id
           /\ remote[e.entry_id].requested
           /\ remote'[e.entry_id].logged_in]_vars

C1_Witness ==
    /\ last.step = "code"
    /\ last.outcome = "ok"
    /\ \E e \in entries : e.entry_id = last.flow
    /\ remote[last.flow].requested

\* C2: when the code form is shown after a user-step submission, and when an
\* entry has been created, the flow's username, client and base URL are all
\* set; a code-step submission without a stored client creates no entry and
\* shows the code form again with an error.
C2_RequiredFieldsPresent ==
    \A f \in Flows :
        /\ ( \/ (last.flow = f /\ last.step = "user" /\ last.input # None
                   /\ flows[f].result = async_show_form("code"))
             \/ flows[f].result.type = "create_entry" )
           => /\ flows[f].username # None
              /\ flows[f].client # NoClient
              /\ flows[f].base_url # None
        /\ (last.flow = f /\ last.step = "code" /\ last.input # None
              /\ flows[f].client = NoClient)
           => /\ flows[f].result = async_show_form("code")
              /\ "base" \in DictKeys(flows[f].errors)
              /\ last.entry_id = 0
              /\ ~\E e \in entries : e.entry_id = f

C2_Witness ==
    /\ last.step = "code"
    /\ last.input # None
    /\ flows[last.flow].client = NoClient
    /\ \E g \in Flows : /\ flows[g].result.type = "create_entry"
                        /\ flows[g].base_url # None

\* C4: every entry holds the username submitted to the flow that created it,
\* the login data of that flow's own client and that client's base URL, and
\* a step of one flow changes no session field of another flow.
C4_SessionFieldsPerFlow ==
    /\ [](\A e \in entries :
            LET f == e.entry_id IN
            /\ e.data.username = submitted[f]
            /\ flows[f].client.owner = f
            /\ e.data.user_data = UserData(flows[f].client)
            /\ e.data.base_url = flows[f].client.base_url)
    /\ [][\A g \in Flows : g # last'.flow => SessionFields(g)' = SessionFields(g)]_vars

C4_Witness ==
    \E e1, e2 \in entries :
        /\ e1.entry_id # e2.entry_id
        /\ e1.data.username # e2.data.username
        /\ e1.data.user_data.session_of = e1.entry_id
        /\ e2.data.user_data.session_of = e2.entry_id

\* C5: a user-step submission whose request_code raises creates no entry,
\* shows the user form again with errors {base: auth}, and changes neither
\* the stored client nor the base URL; the stored username becomes the
\* submitted one.
C5_RequestCodeFailure ==
    [][(last'.step = "user" /\ last'.outcome = "raise") =>
          LET f == last'.flow IN
          /\ entries' = entries
          /\ flows'[f].result = async_show_form("user")
          /\ flows'[f].errors = {<<"base", "auth">>}
          /\ flows'[f].client = flows[f].client
          /\ flows'[f].base_url = flows[f].base_url
          /\ flows'[f].username = last'.input]_vars

C5_Witness ==
    /\ last.step = "user"
    /\ last.outcome = "raise"
    /\ flows[last.flow].client # NoClient
    /\ flows[last.flow].username # flows[last.flow].client.username

\* C6: a code-step submission whose code_login raises or returns nothing
\* creates no entry, shows the code form again with the base error no_device,
\* and keeps username, client and base URL, and a code-step submission whose
\* code_login succeeds on that flow creates the entry.
C6_LoginFailure ==
    [][/\ (last'.step = "code" /\ last'.outcome \in {"raise", "empty"}) =>
            LET f == last'.flow IN
            /\ entries' = entries
            /\ flows'[f].result = async_show_form("code")
            /\ flows'[f].errors = {<<"base", "no_device">>}
            /\ flows'[f].username = flows[f].username
            /\ flows'[f].client = flows[f].client
            /\ flows'[f].base_url = flows[f].base_url
            /\ flows'[f].client # NoClient
       /\ (last'.step = "code" /\ last'.outcome = "ok") =>
            LET f == last'.flow IN
            \E e \in entries' \ entries :
                /\ e.entry_id = f
                /\ e.data.username = flows[f].username
                /\ e.data.user_data = UserData(flows[f].client)
                /\ e.data.base_url = flows[f].base_url]_vars

C6_Witness ==
    /\ last.step = "code"
    /\ last.outcome = "raise"
    /\ BaseError(last.flow, "no_device")
    /\ Active(last.flow)
    /\ flows[last.flow].client # NoClient
    /\ ~\E e \in entries : e.entry_id = last.flow

C3_OptionsPersistedVerbatim ==
    (options_flow.result.type = "create_entry" /\ Truthy(options_flow.input)) =>
        /\ config_entry.options = options_flow.result.data
        /\ \A k \in DictKeys(options_flow.input) :
               get_nested_dict(config_entry.options, k, NoValue) =
                   DictGet(options_flow.input, k)
        /\ Paths(config_entry.options) = {Split(k) : k \in DictKeys(options_flow.input)}

C3_Witness ==
    /\ options_flow.result.type = "create_entry"
    /\ Truthy(options_flow.input)
    /\ options_flow.had_other_keys
    /\ KEY_LEFT \in DictKeys(options_flow.input)
    /\ KEY_SCALE \notin DictKeys(options_flow.input)

====
